---- MODULE Spec2Model ----
(***************************************************************************)
(* BB84 eavesdropper-detection simulation (final1.py).                     *)
(*                                                                         *)
(* The program is one function, run_qkd_protocol, that draws from the      *)
(* process-wide generator np.random.  The model keeps                      *)
(*   - the three module-level configuration names,                         *)
(*   - the generator: the stream of raw cells it produces from its seed    *)
(*     and the number of cells consumed since it was last seeded,          *)
(*   - one frame (program counter and locals) per call of the function.    *)
(* Probabilities and the threshold are held in percent (0.5 is 50) and the *)
(* QBER as the exact fraction <<errors, CHECK_SIZE>>.                      *)
(***************************************************************************)
EXTENDS Integers, Sequences, FiniteSets, TLC

VARIABLES
    NUM_PHOTONS,         \* final1.py:5
    EAVESDROP_PROB,      \* final1.py:7, in percent
    SECURITY_THRESHOLD,  \* final1.py:8, in percent
    rng,                 \* np.random: [tape, pos, cyclic]
    run                  \* call id -> frame of run_qkd_protocol

vars == <<NUM_PHOTONS, EAVESDROP_PROB, SECURITY_THRESHOLD, rng, run>>

---------------------------------------------------------------------------
(* Bounds of the model *)

\* largest photon count explored over every draw, eavesdropper present
MaxLoudPhotons == 2
\* largest photon count explored over every draw, no eavesdropper
MaxQuietPhotons == 4
\* largest photon count explored with a seeded generator
MaxSeededPhotons == 8
\* longest seed of a seeded generator (its stream repeats the seed)
MaxPeriod == 8
\* largest photon count and longest seed explored where out-of-range
\* configurations or the interleavings of two calls multiply the states
MaxSmallPhotons == 2
MaxSmallPeriod == 5

(* Program constants, in percent *)
DefaultProb == 50
DefaultThreshold == 11

Bits == {0, 1}
\* the first component of the returned pair: None, or an array
None == <<>>
Some(array) == <<array>>

---------------------------------------------------------------------------
(* np.random *)

\* A generator is [tape, pos, cyclic].  A cyclic generator was seeded: its
\* stream is the seed (tape) repeated.  Otherwise tape holds the cells
\* produced so far and every further cell is free.

\* the k cells of a seeded stream after position pos
Stream(tape, pos, k) == [i \in 1..k |-> tape[((pos + i - 1) % Len(tape)) + 1]]

\* the sequences of k raw cells the generator can hand out next
Take(k) ==
    IF rng.cyclic
    THEN {Stream(rng.tape, rng.pos, k)}
    ELSE {ext \in [1..k -> Bits] : TRUE}

\* the generator after handing out cells
Advance(cells) ==
    [rng EXCEPT !.pos = @ + Len(cells),
                !.tape = IF rng.cyclic THEN @ ELSE @ \o cells]

\* np.random.randint(0, 2, n): one cell per element
randint(cells) == [i \in 1..Len(cells) |-> cells[i] % 2]

\* np.random.rand(n), in percent: one cell per element, values in [0, 1)
rand(cells) == [i \in 1..Len(cells) |-> 50 * cells[i]]

\* cells needed to draw one of m items
RECURSIVE Width(_)
Width(m) == IF m <= 1 THEN 0 ELSE 1 + Width((m + 1) \div 2)

\* cells consumed by np.random.choice(a, size, replace=False)
RECURSIVE ChoiceCells(_, _)
ChoiceCells(a, size) ==
    IF size = 0 THEN 0 ELSE Width(a) + ChoiceCells(a - 1, size - 1)

RECURSIVE ToNat(_)
ToNat(bs) == IF bs = <<>> THEN 0 ELSE 2 * ToNat(SubSeq(bs, 1, Len(bs) - 1)) + bs[Len(bs)]

Remove(s, k) == SubSeq(s, 1, k - 1) \o SubSeq(s, k + 1, Len(s))

\* np.random.choice(a, size, replace=False): size distinct items of pool
RECURSIVE Pick(_, _, _)
Pick(cells, pool, size) ==
    IF size = 0 THEN <<>>
    ELSE LET w == Width(Len(pool))
             k == (ToNat(SubSeq(cells, 1, w)) % Len(pool)) + 1
         IN <<pool[k]>> \o Pick(SubSeq(cells, w + 1, Len(cells)), Remove(pool, k), size - 1)

arange(n) == [i \in 1..n |-> i - 1]

choice(cells, a, size) == Pick(cells, arange(a), size)

---------------------------------------------------------------------------
(* Array helpers *)

\* a[mask]: the elements of a where mask holds, in order
RECURSIVE Select(_, _)
Select(a, mask) ==
    IF a = <<>> THEN <<>>
    ELSE LET n == Len(a) IN
         Select(SubSeq(a, 1, n - 1), SubSeq(mask, 1, n - 1))
            \o (IF mask[n] THEN <<a[n]>> ELSE <<>>)

Range(s) == {s[i] : i \in 1..Len(s)}

\* a[idx] for 0-based indices idx
Index(a, idx) == [j \in 1..Len(idx) |-> a[idx[j] + 1]]

\* np.sum of a boolean array
RECURSIVE Sum(_)
Sum(b) == IF b = <<>> THEN 0
          ELSE Sum(SubSeq(b, 1, Len(b) - 1)) + (IF b[Len(b)] THEN 1 ELSE 0)

Min(a, b) == IF a <= b THEN a ELSE b

---------------------------------------------------------------------------
(* run_qkd_protocol *)

Frame(flag, pc) ==
    [pc |-> pc, eavesdropper_present |-> flag,
     alice_bits |-> <<>>, alice_bases |-> <<>>, bob_bases |-> <<>>,
     received_bits |-> <<>>, eve_bases |-> <<>>, intercept_mask |-> <<>>,
     eve_error_mask |-> <<>>, bob_bits |-> <<>>,
     alice_sifted_key |-> <<>>, bob_sifted_key |-> <<>>, sifted_length |-> 0,
     CHECK_SIZE |-> 0, check_indices |-> <<>>, errors |-> 0, qber |-> <<0, 0>>,
     remaining_key |-> <<>>, key |-> None, justification |-> <<>>]

Set(r, f) == /\ run' = [run EXCEPT ![r] = f]
             /\ UNCHANGED <<NUM_PHOTONS, EAVESDROP_PROB, SECURITY_THRESHOLD>>

\* lines 15-16; numpy refuses a negative length before drawing anything
DrawAliceBits(r) ==
    /\ run[r].pc = "l16"
    /\ IF NUM_PHOTONS < 0
       THEN /\ Set(r, [run[r] EXCEPT !.pc = "raised", !.justification = <<"ValueError">>])
            /\ UNCHANGED rng
       ELSE \E cells \in Take(NUM_PHOTONS) :
              /\ rng' = Advance(cells)
              /\ Set(r, [run[r] EXCEPT !.pc = "l17", !.alice_bits = randint(cells)])

\* line 17
DrawAliceBases(r) ==
    /\ run[r].pc = "l17"
    /\ \E cells \in Take(NUM_PHOTONS) :
          /\ rng' = Advance(cells)
          /\ Set(r, [run[r] EXCEPT !.pc = "l18", !.alice_bases = randint(cells)])

\* lines 18-23
DrawBobBases(r) ==
    /\ run[r].pc = "l18"
    /\ \E cells \in Take(NUM_PHOTONS) :
          /\ rng' = Advance(cells)
          /\ Set(r, [run[r] EXCEPT !.bob_bases = randint(cells),
                        !.received_bits = run[r].alice_bits,
                        !.pc = IF run[r].eavesdropper_present THEN "l25" ELSE "l35"])

\* line 25
DrawEveBases(r) ==
    /\ run[r].pc = "l25"
    /\ \E cells \in Take(NUM_PHOTONS) :
          /\ rng' = Advance(cells)
          /\ Set(r, [run[r] EXCEPT !.pc = "l27", !.eve_bases = randint(cells)])

\* np.random.rand(N) < EAVESDROP_PROB
InterceptMask(u, prob) == [i \in 1..Len(u) |-> u[i] < prob]

\* variant: every intercepted photon is disturbed, whatever Eve's basis
InterceptOnly(mask, a_bases, e_bases) == [i \in 1..Len(mask) |-> mask[i]]

\* intercept_mask & (alice_bases != eve_bases)
EveErrorMask(mask, a_bases, e_bases) ==
    [i \in 1..Len(mask) |-> mask[i] /\ a_bases[i] # e_bases[i]]

\* variant: the masked positions are set to 1 instead of complemented
FlipToOne(bits, mask) == [i \in 1..Len(bits) |-> IF mask[i] THEN 1 ELSE bits[i]]

\* received_bits[eve_error_mask] = 1 - received_bits[eve_error_mask]
Flip(bits, mask) == [i \in 1..Len(bits) |-> IF mask[i] THEN 1 - bits[i] ELSE bits[i]]

\* lines 27-32
Intercept(r) ==
    /\ run[r].pc = "l27"
    /\ \E cells \in Take(NUM_PHOTONS) :
          LET im == InterceptMask(rand(cells), EAVESDROP_PROB)
              em == EveErrorMask(im, run[r].alice_bases, run[r].eve_bases)
          IN /\ rng' = Advance(cells)
             /\ Set(r, [run[r] EXCEPT !.pc = "l35", !.intercept_mask = im,
                          !.eve_error_mask = em,
                          !.received_bits = Flip(run[r].received_bits, em)])

\* alice_bases == bob_bases
MatchMask(a_bases, b_bases) == [i \in 1..Len(a_bases) |-> a_bases[i] = b_bases[i]]

\* variant: a matched-basis measurement yields the complement of the received bit
RECURSIVE BobBitsInverted(_, _, _)
BobBitsInverted(received, match, cells) ==
    IF received = <<>> THEN <<>>
    ELSE LET n == Len(received) IN
         IF match[n]
         THEN BobBitsInverted(SubSeq(received, 1, n - 1), SubSeq(match, 1, n - 1), cells)
                \o <<1 - received[n]>>
         ELSE BobBitsInverted(SubSeq(received, 1, n - 1), SubSeq(match, 1, n - 1),
                              SubSeq(cells, 1, Len(cells) - 1))
                \o <<cells[Len(cells)] % 2>>

\* the loop of lines 38-43: cells holds one draw per mismatched position,
\* in the order of the positions
RECURSIVE BobBits(_, _, _)
BobBits(received, match, cells) ==
    IF received = <<>> THEN <<>>
    ELSE LET n == Len(received) IN
         IF match[n]
         THEN BobBits(SubSeq(received, 1, n - 1), SubSeq(match, 1, n - 1), cells)
                \o <<received[n]>>
         ELSE BobBits(SubSeq(received, 1, n - 1), SubSeq(match, 1, n - 1),
                      SubSeq(cells, 1, Len(cells) - 1))
                \o <<cells[Len(cells)] % 2>>

Not(mask) == [i \in 1..Len(mask) |-> ~mask[i]]

\* lines 35-43; the draws of the loop are taken in one step (with one call
\* this is every behaviour; with two it leaves out the schedules that
\* interleave inside the loop)
Measure(r) ==
    /\ run[r].pc = "l35"
    /\ LET match_mask == MatchMask(run[r].alice_bases, run[r].bob_bases) IN
       \E cells \in Take(Sum(Not(match_mask))) :
          /\ rng' = Advance(cells)
          /\ Set(r, [run[r] EXCEPT !.pc = "l46",
                        !.bob_bits = BobBits(run[r].received_bits, match_mask, cells)])

SiftFailure == <<"Key failure due to sifting.">>

\* variant: the empty sifted key is not caught
NeverEmpty(sifted_length) == sifted_length < 0

\* sifted_length == 0
EmptySift(sifted_length) == sifted_length = 0

\* lines 46-52
Sift(r) ==
    /\ run[r].pc = "l46"
    /\ LET sift_mask == MatchMask(run[r].alice_bases, run[r].bob_bases)
           a == Select(run[r].alice_bits, sift_mask)
           b == Select(run[r].bob_bits, sift_mask)
       IN Set(r, [run[r] EXCEPT !.alice_sifted_key = a, !.bob_sifted_key = b,
                     !.sifted_length = Len(a),
                     !.pc = IF EmptySift(Len(a)) THEN "done" ELSE "l55",
                     !.key = None,
                     !.justification = IF EmptySift(Len(a)) THEN SiftFailure ELSE @])
    /\ UNCHANGED rng

\* sifted_length // 4
CheckSize(sifted_length) == sifted_length \div 4

\* alice_check != bob_check
Differ(a, b) == [j \in 1..Len(a) |-> a[j] # b[j]]

\* variant: an empty sample counts as all errors
QberWorstCase(errors, size) == IF size > 0 THEN <<errors, size>> ELSE <<1, 1>>

\* errors / CHECK_SIZE if CHECK_SIZE > 0 else 0
Qber(errors, size) == IF size > 0 THEN <<errors, size>> ELSE <<0, 1>>

\* variant: the positions are numbered from 1
NotInFromOne(n, idx) == [i \in 1..n |-> i \notin Range(idx)]

\* ~np.isin(np.arange(sifted_length), check_indices)
NotIn(n, idx) == [i \in 1..n |-> arange(n)[i] \notin Range(idx)]

\* lines 55-66
SecurityCheck(r) ==
    /\ run[r].pc = "l55"
    /\ LET size == CheckSize(run[r].sifted_length) IN
       \E cells \in Take(ChoiceCells(run[r].sifted_length, size)) :
          LET idx == choice(cells, run[r].sifted_length, size)
              e   == Sum(Differ(Index(run[r].alice_sifted_key, idx),
                                Index(run[r].bob_sifted_key, idx)))
          IN /\ rng' = Advance(cells)
             /\ Set(r, [run[r] EXCEPT !.pc = "l69", !.CHECK_SIZE = size,
                          !.check_indices = idx, !.errors = e, !.qber = Qber(e, size),
                          !.remaining_key = Select(run[r].alice_sifted_key,
                                                   NotIn(run[r].sifted_length, idx))])

\* variant: qber >= SECURITY_THRESHOLD
AtOrAbove(q, threshold) == q[1] * 100 >= threshold * q[2]

\* qber > SECURITY_THRESHOLD
Above(q, threshold) == q[1] * 100 > threshold * q[2]

\* f"{qber*100:.2f}": the percentage in hundredths, rounded
Percent(q) == (q[1] * 20000 + q[2]) \div (2 * q[2])

\* remaining_key[:10]
Preview(k) == SubSeq(k, 1, Min(10, Len(k)))

Intrusion(q) == <<"Eavesdropper detected", Percent(q)>>
Secure(q, k) == <<"Key is SECURE", Percent(q), Preview(k)>>

\* variant: the returned key accumulates across calls (module-level list)
DecideAccumulating(r) ==
    /\ run[r].pc = "l69"
    /\ LET earlier == IF \E o \in DOMAIN run : o # r /\ run[o].pc = "done" /\ run[o].key # None
                      THEN run[CHOOSE o \in DOMAIN run :
                                 o # r /\ run[o].pc = "done" /\ run[o].key # None].key[1]
                      ELSE <<>>
       IN IF Above(run[r].qber, SECURITY_THRESHOLD)
          THEN Set(r, [run[r] EXCEPT !.pc = "done", !.key = None,
                         !.justification = Intrusion(run[r].qber)])
          ELSE Set(r, [run[r] EXCEPT !.pc = "done",
                         !.key = Some(earlier \o run[r].remaining_key),
                         !.justification = Secure(run[r].qber, earlier \o run[r].remaining_key)])
    /\ UNCHANGED rng

\* lines 69-75
Decide(r) ==
    /\ run[r].pc = "l69"
    /\ IF Above(run[r].qber, SECURITY_THRESHOLD)
       THEN Set(r, [run[r] EXCEPT !.pc = "done", !.key = None,
                      !.justification = Intrusion(run[r].qber)])
       ELSE Set(r, [run[r] EXCEPT !.pc = "done", !.key = Some(run[r].remaining_key),
                      !.justification = Secure(run[r].qber, run[r].remaining_key)])
    /\ UNCHANGED rng

\* the generator is seeded again and the calls that waited for it start
Reseed ==
    /\ \A r \in DOMAIN run : run[r].pc \in {"done", "raised", "waiting"}
    /\ \E r \in DOMAIN run : run[r].pc = "waiting"
    /\ rng' = [rng EXCEPT !.pos = 0]
    /\ run' = [r \in DOMAIN run |->
                 IF run[r].pc = "waiting" THEN [run[r] EXCEPT !.pc = "l16"] ELSE run[r]]
    /\ UNCHANGED <<NUM_PHOTONS, EAVESDROP_PROB, SECURITY_THRESHOLD>>

---------------------------------------------------------------------------
(* Specifications *)

Unseeded == [tape |-> <<>>, pos |-> 0, cyclic |-> FALSE]
Seeded(seed) == [tape |-> seed, pos |-> 0, cyclic |-> TRUE]
Seeds(n) == UNION {[1..k -> Bits] : k \in 1..n}

\* the configurations that are valid: probabilities within [0, 1]
Valid == NUM_PHOTONS >= 0 /\ EAVESDROP_PROB \in 0..100 /\ SECURITY_THRESHOLD \in 0..100

\* One call, every outcome of every draw, the shipped threshold; with an
\* eavesdropper, the shipped interception probability or full interception.
Init ==
    /\ \E flag \in BOOLEAN :
         /\ NUM_PHOTONS \in 0..(IF flag THEN MaxLoudPhotons ELSE MaxQuietPhotons)
         /\ EAVESDROP_PROB \in (IF flag THEN {DefaultProb, 100} ELSE {DefaultProb})
         /\ run = [r \in {1} |-> Frame(flag, "l16")]
    /\ SECURITY_THRESHOLD = DefaultThreshold
    /\ rng = Unseeded

Next ==
    \/ \E r \in DOMAIN run : DrawAliceBits(r)
    \/ \E r \in DOMAIN run : DrawAliceBases(r)
    \/ \E r \in DOMAIN run : DrawBobBases(r)
    \/ \E r \in DOMAIN run : DrawEveBases(r)
    \/ \E r \in DOMAIN run : Intercept(r)
    \/ \E r \in DOMAIN run : Measure(r)
    \/ \E r \in DOMAIN run : Sift(r)
    \/ \E r \in DOMAIN run : SecurityCheck(r)
    \/ \E r \in DOMAIN run : Decide(r)

Spec == Init /\ [][Next]_vars

\* One call from a seeded generator, valid configurations.
InitSeeded ==
    /\ NUM_PHOTONS \in 0..MaxSeededPhotons
    /\ EAVESDROP_PROB \in {DefaultProb, 100}
    /\ SECURITY_THRESHOLD \in {0, DefaultThreshold, 50, 100}
    /\ rng \in {Seeded(seed) : seed \in Seeds(MaxPeriod)}
    /\ \E flag \in BOOLEAN : run = [r \in {1} |-> Frame(flag, "l16")]

SpecSeeded == InitSeeded /\ [][Next]_vars

\* One call from a seeded generator, configurations in and out of range.
InitConfig ==
    /\ NUM_PHOTONS \in (0 - 1)..MaxSmallPhotons
    /\ EAVESDROP_PROB \in {0 - 50, DefaultProb, 150}
    /\ SECURITY_THRESHOLD \in {0 - 50, DefaultThreshold, 150}
    /\ rng \in {Seeded(seed) : seed \in Seeds(MaxSmallPeriod)}
    /\ \E flag \in BOOLEAN : run = [r \in {1} |-> Frame(flag, "l16")]

SpecConfig == InitConfig /\ [][Next]_vars

\* Two calls with the same flag, the second after the generator is seeded
\* again with the same seed.
InitReplay ==
    /\ NUM_PHOTONS \in 0..MaxSeededPhotons
    /\ EAVESDROP_PROB = DefaultProb
    /\ SECURITY_THRESHOLD = DefaultThreshold
    /\ rng \in {Seeded(seed) : seed \in Seeds(MaxPeriod)}
    /\ \E flag \in BOOLEAN :
         run = [r \in {1, 2} |-> Frame(flag, IF r = 1 THEN "l16" ELSE "waiting")]

NextReplay == Next \/ Reseed

SpecReplay == InitReplay /\ [][NextReplay]_vars

\* Calls 1 and 2 run concurrently on the one generator, each np.random call
\* a step; call 3 then runs alone from the generator state call 1 started
\* from, with the flag of call 1.
InitPair ==
    /\ NUM_PHOTONS \in 0..MaxSmallPhotons
    /\ EAVESDROP_PROB = DefaultProb
    /\ SECURITY_THRESHOLD = DefaultThreshold
    /\ rng \in {Seeded(seed) : seed \in Seeds(MaxSmallPeriod)}
    /\ \E flag1 \in BOOLEAN, flag2 \in BOOLEAN :
         run = [r \in {1, 2, 3} |->
                  CASE r = 1 -> Frame(flag1, "l16")
                    [] r = 2 -> Frame(flag2, "l16")
                    [] r = 3 -> Frame(flag1, "waiting")]

SpecPair == InitPair /\ [][NextReplay]_vars

---------------------------------------------------------------------------
(* Properties *)

Calls == DOMAIN run

\* program points at which the named locals are bound
Transmitted == {"l35", "l46", "l55", "l69", "done"}
Measured    == {"l46", "l55", "l69", "done"}
Checked(f)  == f.pc = "l69" \/ (f.pc = "done" /\ f.sifted_length > 0)
Returned(f) == f.pc = "done"

Positions(f) == 1..Len(f.alice_bases)
Matching(f)  == {i \in Positions(f) : f.alice_bases[i] = f.bob_bases[i]}

\* the j-th smallest element of a set of numbers
Nth(S, j) == CHOOSE x \in S : Cardinality({y \in S : y < x}) = j - 1

\* the check positions at which the two sifted keys disagree
Disagreeing(f) ==
    {j \in 1..Len(f.check_indices) :
        f.alice_sifted_key[f.check_indices[j] + 1] # f.bob_sifted_key[f.check_indices[j] + 1]}

\* the QBER, recounted from the sifted keys, exceeds the threshold
QberExceeds(f) ==
    IF f.CHECK_SIZE > 0
    THEN Cardinality(Disagreeing(f)) * 100 > SECURITY_THRESHOLD * f.CHECK_SIZE
    ELSE 0 > SECURITY_THRESHOLD

Rejected(f) == f.key = None /\ f.justification[1] = "Eavesdropper detected"
Accepted(f) == f.key = Some(f.remaining_key) /\ f.justification[1] = "Key is SECURE"

\* C1: a call whose sifted key is not empty returns (None, intrusion text)
\* exactly when the QBER is strictly above the threshold, and otherwise
\* (remaining_key, security text); a QBER equal to the threshold is accepted
\* and a rejection carries no key bits.
C1_Decision ==
    \A r \in Calls :
        (Returned(run[r]) /\ run[r].sifted_length > 0) =>
            IF QberExceeds(run[r])
            THEN Rejected(run[r]) /\ Len(run[r].justification) = 2
            ELSE Accepted(run[r])

\* a call accepted with errors in the sample, the QBER equal to the threshold
C1_Witness ==
    \E r \in Calls :
        /\ Returned(run[r]) /\ run[r].CHECK_SIZE > 0
        /\ Cardinality(Disagreeing(run[r])) > 0
        /\ Cardinality(Disagreeing(run[r])) * 100 = SECURITY_THRESHOLD * run[r].CHECK_SIZE
        /\ Accepted(run[r])

\* a call rejected for its QBER
C1_Rejection == \E r \in Calls : Returned(run[r]) /\ Rejected(run[r])

\* C2: when no position has equal bases (N = 0 included) the call returns
\* exactly (None, "Key failure due to sifting."), raises nothing, and never
\* reaches the security check: no check index is sampled, no QBER computed.
C2_EmptySift ==
    \A r \in Calls :
        (run[r].pc \in (Measured \ {"l46"}) /\ Matching(run[r]) = {}) =>
            /\ run[r].pc = "done"
            /\ run[r].key = None
            /\ run[r].justification = <<"Key failure due to sifting.">>
            /\ run[r].qber = <<0, 0>>
            /\ run[r].check_indices = <<>>
            /\ rng.pos = (IF run[r].eavesdropper_present THEN 6 ELSE 4) * NUM_PHOTONS

\* a call with photons, none with equal bases, has returned
C2_Witness ==
    \E r \in Calls :
        Returned(run[r]) /\ NUM_PHOTONS > 0 /\ Matching(run[r]) = {}

\* C3: without an eavesdropper received_bits equals alice_bits, the sifted
\* keys are equal, the QBER is 0 and the call is never rejected for its QBER.
C3_NoFalseReject ==
    \A r \in Calls :
        ~run[r].eavesdropper_present =>
            /\ run[r].pc \in Transmitted => run[r].received_bits = run[r].alice_bits
            /\ run[r].pc \in Measured \ {"l46"} =>
                  run[r].bob_sifted_key = run[r].alice_sifted_key
            /\ Checked(run[r]) => run[r].errors = 0 /\ run[r].qber[1] = 0
            /\ Returned(run[r]) => run[r].justification[1] # "Eavesdropper detected"

\* a call without eavesdropper, accepted after a check of at least one bit
C3_Witness ==
    \E r \in Calls :
        /\ ~run[r].eavesdropper_present /\ Returned(run[r])
        /\ run[r].CHECK_SIZE > 0 /\ Accepted(run[r])

\* C4: once sifting has succeeded, check_indices holds sifted_length div 4
\* distinct indices of [0, sifted_length), remaining_key is the sifted key
\* at the other indices in ascending order, its length is sifted_length
\* minus the check size, and sifted_length is at most N.
C4_CheckSample ==
    \A r \in Calls :
        Checked(run[r]) =>
            LET f    == run[r]
                idx  == f.check_indices
                keep == {i \in 0..(f.sifted_length - 1) : \A j \in 1..Len(idx) : idx[j] # i}
            IN /\ f.CHECK_SIZE = f.sifted_length \div 4
               /\ Len(idx) = f.CHECK_SIZE
               /\ \A j \in 1..Len(idx) : idx[j] \in 0..(f.sifted_length - 1)
               /\ \A j, k \in 1..Len(idx) : j # k => idx[j] # idx[k]
               /\ Len(f.remaining_key) = f.sifted_length - f.CHECK_SIZE
               /\ Len(f.remaining_key) = Cardinality(keep)
               /\ \A j \in 1..Len(f.remaining_key) :
                     f.remaining_key[j] = f.alice_sifted_key[Nth(keep, j) + 1]
               /\ f.sifted_length = Len(f.alice_sifted_key)
               /\ f.sifted_length <= NUM_PHOTONS

\* a call that checked two indices, drawn out of order, and kept both bit values
C4_Witness ==
    \E r \in Calls :
        /\ Checked(run[r]) /\ run[r].CHECK_SIZE = 2
        /\ run[r].check_indices[1] > run[r].check_indices[2]
        /\ \E j, k \in 1..Len(run[r].remaining_key) :
              run[r].remaining_key[j] # run[r].remaining_key[k]

\* C5: an invalid configuration (negative N, probability or threshold
\* outside [0, 1]) fails at setup, before any random value is drawn; the
\* call never proceeds to a protocol outcome.
C5_FailFast ==
    ~Valid => /\ rng.pos = 0
              /\ \A r \in Calls : run[r].pc \in {"l16", "raised"}

EveDraws == [1..NUM_PHOTONS -> Bits] \X [1..NUM_PHOTONS -> Bits]

\* Bob's bits for frame f under Eve's draws d, mismatched positions drawn 0
BobUnder(f, d) ==
    LET im == InterceptMask(rand(d[2]), EAVESDROP_PROB)
        em == EveErrorMask(im, f.alice_bases, randint(d[1]))
    IN BobBits(Flip(f.alice_bits, em), MatchMask(f.alice_bases, f.bob_bases),
               [i \in 1..NUM_PHOTONS |-> 0])

\* over every draw of Eve, the sifted positions / those where Bob differs
SiftedCases(f) == {c \in EveDraws \X Matching(f) : TRUE}
ErrorCases(f) ==
    {c \in EveDraws \X Matching(f) : BobUnder(f, c[1])[c[2]] # f.alice_bits[c[2]]}

\* prepared frames of an eavesdropped call under full interception
FullyIntercepted(f) ==
    f.pc = "l25" /\ f.eavesdropper_present /\ EAVESDROP_PROB = 100

\* C7 as stated: under full interception, over all draws of Eve one sifted
\* position in four has Bob's bit differ from Alice's.
C7_Quarter ==
    \A r \in Calls :
        FullyIntercepted(run[r]) =>
            4 * Cardinality(ErrorCases(run[r])) = Cardinality(SiftedCases(run[r]))

\* C7 amended: under full interception, over all draws of Eve one sifted
\* position in two has Bob's bit differ from Alice's (a photon measured by
\* Eve in the other basis always errs).
C7_Half ==
    \A r \in Calls :
        FullyIntercepted(run[r]) =>
            2 * Cardinality(ErrorCases(run[r])) = Cardinality(SiftedCases(run[r]))

\* a prepared, fully intercepted call with a sifted position
C7_Witness ==
    \E r \in Calls : FullyIntercepted(run[r]) /\ Matching(run[r]) # {}

\* C8: a call that ran concurrently with another returns what the same
\* call returns alone from the generator state it started from.
C8_NoInterference ==
    (run[3].pc = "done" /\ run[1].pc = "done") =>
        /\ run[1].key = run[3].key
        /\ run[1].justification = run[3].justification

\* C9: received_bits differs from alice_bits exactly where Eve is present,
\* intercepted and measured in the other basis; alice_bits stays as drawn;
\* where the bases match Bob's bit is the received bit; and a sifted
\* position disagrees exactly when it is in eve_error_mask.
C9_Disturbance ==
    \A r \in Calls :
        LET f == run[r]
            disturbed(i) == /\ f.eavesdropper_present
                            /\ f.intercept_mask[i]
                            /\ f.alice_bases[i] # f.eve_bases[i]
        IN /\ f.pc \in Transmitted =>
                /\ \A i \in Positions(f) : (f.received_bits[i] # f.alice_bits[i]) <=> disturbed(i)
                /\ f.alice_bits = SubSeq(rng.tape, 1, NUM_PHOTONS)
           /\ f.pc \in Measured =>
                \A i \in Matching(f) : f.bob_bits[i] = f.received_bits[i]
           /\ f.pc \in Measured \ {"l46"} =>
                /\ Len(f.alice_sifted_key) = Cardinality(Matching(f))
                /\ Len(f.bob_sifted_key) = Cardinality(Matching(f))
                /\ \A k \in 1..Cardinality(Matching(f)) :
                      (f.alice_sifted_key[k] # f.bob_sifted_key[k])
                          <=> (f.eavesdropper_present /\ f.eve_error_mask[Nth(Matching(f), k)])

\* a returned call with a sifted position that Eve disturbed and one she did not
C9_Witness ==
    \E r \in Calls :
        /\ Returned(run[r]) /\ run[r].sifted_length = 2
        /\ run[r].alice_sifted_key[1] = run[r].bob_sifted_key[1]
        /\ run[r].alice_sifted_key[2] # run[r].bob_sifted_key[2]

\* C10: a call whose sifted key has 1 to 3 bits checks nothing, takes the
\* QBER as 0 and returns the whole sifted key of Alice, accepted, whatever
\* Bob's sifted bits are.
C10_ShortKey ==
    \A r \in Calls :
        (Returned(run[r]) /\ run[r].sifted_length \in 1..3) =>
            /\ run[r].CHECK_SIZE = 0
            /\ run[r].check_indices = <<>>
            /\ run[r].qber[1] = 0
            /\ run[r].key = Some(run[r].alice_sifted_key)
            /\ run[r].justification = <<"Key is SECURE", 0, run[r].alice_sifted_key>>

\* an eavesdropped call accepted with 3 sifted bits, all of Bob's wrong
C10_Witness ==
    \E r \in Calls :
        /\ Returned(run[r]) /\ run[r].eavesdropper_present
        /\ run[r].sifted_length = 3
        /\ \A k \in 1..3 : run[r].bob_sifted_key[k] # run[r].alice_sifted_key[k]
        /\ run[r].key = Some(run[r].alice_sifted_key)

====
